---- MODULE Spec2Model ----
(***************************************************************************)
(* Model of the GLB Transform extension: the advanced pipeline builder     *)
(* (transformGlb), the fixed-mode compressor (compressGlb) and the two     *)
(* batch loops (handleSubmit, processGlbFiles).                            *)
(*                                                                         *)
(* Strings that the code takes apart (file paths) are sequences of         *)
(* one-character strings, so that basename, dirname, endsWith and          *)
(* toLowerCase are computed, not assumed.                                  *)
(***************************************************************************)
EXTENDS Integers, Sequences, FiniteSets, TLC

(***************************************************************************)
(* Bounds of the model.                                                    *)
(***************************************************************************)
\* Largest number of items in the Finder selection.
MaxSelected == 3
\* Largest number of base-1024 digits of a byte count given to formatBytes.
MaxDigits == 5
\* Largest number of results in a summarised result list.
MaxResults == 2
\* Largest number of reports in the inspection view.
MaxReports == 3
\* Largest number of navigation actions taken in the inspection view.
MaxNav == 4

(***************************************************************************)
(* Characters and strings.                                                 *)
(***************************************************************************)
SLASH == "/"

Str_glb == <<".", "g", "l", "b">>
Str_GLB == <<".", "G", "L", "B">>
Str_Glb == <<".", "G", "l", "b">>
Str_txt == <<".", "t", "x", "t">>
Str_bak == <<".", "g", "l", "b", ".", "b", "a", "k">>

Str_optimized == <<"_", "o", "p", "t", "i", "m", "i", "z", "e", "d">>
Str_draco == <<"_", "d", "r", "a", "c", "o">>
Str_ktx == <<"_", "k", "t", "x">>
Str_compressed == <<"_", "c", "o", "m", "p", "r", "e", "s", "s", "e", "d">>

\* String.prototype.toLowerCase on one character (the upper-case letters in use).
toLowerChar(c) ==
    CASE c = "G" -> "g"
      [] c = "L" -> "l"
      [] c = "B" -> "b"
      [] c = "A" -> "a"
      [] OTHER -> c

toLowerCase(s) == [k \in 1..Len(s) |-> toLowerChar(s[k])]

\* String.prototype.endsWith
endsWith(s, suffix) ==
    /\ Len(suffix) <= Len(s)
    /\ SubSeq(s, Len(s) - Len(suffix) + 1, Len(s)) = suffix

\* Index of the last "/" of p, 0 when there is none.
LastSlash(p) ==
    LET idx == {k \in 1..Len(p) : p[k] = SLASH}
    IN  IF idx = {} THEN 0 ELSE CHOOSE k \in idx : \A m \in idx : m <= k

\* path.basename(p) for a path without trailing slash.
basename(p) == SubSeq(p, LastSlash(p) + 1, Len(p))

\* path.basename(p, ext): the suffix is removed only on an exact, case-sensitive
\* match, and never when it is the whole base name.
basenameExt(p, ext) ==
    LET b == basename(p)
    IN  IF p = ext THEN <<>>
        ELSE IF endsWith(b, ext) /\ b # ext
             THEN SubSeq(b, 1, Len(b) - Len(ext))
             ELSE b

\* path.dirname(p) for a path without trailing slash.
dirname(p) ==
    LET k == LastSlash(p)
    IN  IF k = 0 THEN <<".">>
        ELSE IF k = 1 THEN <<SLASH>>
        ELSE SubSeq(p, 1, k - 1)

\* path.join(dir, name) for a normalised dir and a non-empty name without slash.
join(dir, name) ==
    IF dir = <<SLASH>> THEN dir \o name
    ELSE IF dir = <<".">> THEN name
    ELSE dir \o <<SLASH>> \o name

\* The filter of the batch loops: item.path.toLowerCase().endsWith(".glb")
IsGlbFile(p) == endsWith(toLowerCase(p), Str_glb)

(***************************************************************************)
(* Output naming.                                                          *)
(***************************************************************************)
Modes == {"advanced", "draco", "ktx", "full"}

\* A suffix that leaves the name as it is.
suffixOf_NoSuffix(mode) == <<>>

\* transformGlb: "_optimized"; compressGlb: mode === "full" ? "_compressed" : `_${mode}`
suffixOf(mode) ==
    CASE mode = "advanced" -> Str_optimized
      [] mode = "full" -> Str_compressed
      [] mode = "draco" -> Str_draco
      [] mode = "ktx" -> Str_ktx

\* path.join(dirName, `${baseName}${suffix}.glb`)
outputPathOf(filePath, mode) ==
    join(dirname(filePath), basenameExt(filePath, Str_glb) \o suffixOf(mode) \o Str_glb)

(***************************************************************************)
(* The pipeline builder of transformGlb.                                   *)
(***************************************************************************)
GeometryCodecs == {"none", "draco", "meshopt"}
TextureCodecs == {"none", "ktx2", "webp", "avif", "png", "jpeg"}
\* Two of the six entries of the "Max Size" dropdown: the value only travels
\* into the arguments of the resize command.
TextureSizes == {"none", "1024"}
\* What the three free-text fields may hold: empty, or a number as typed.
MinTexts == {"", "10"}
RatioTexts == {"", "0.50"}

FormValues ==
    [geometryCompression : GeometryCodecs,
     textureCompression : TextureCodecs,
     textureResize : TextureSizes,
     dedup : BOOLEAN, flatten : BOOLEAN, join : BOOLEAN, weld : BOOLEAN,
     prune : BOOLEAN, resample : BOOLEAN, sparse : BOOLEAN,
     instance : BOOLEAN, instanceMin : MinTexts,
     palette : BOOLEAN, paletteMin : MinTexts,
     simplify : BOOLEAN, simplifyRatio : RatioTexts]

\* JavaScript's  text || fallback  on strings: the empty string is falsy.
orDefault(text, fallback) == IF text = "" THEN fallback ELSE text

\* parseFloat followed by the template literal's number-to-string conversion.
parseFloatText(text) ==
    CASE text = "0.75" -> "0.75"
      [] text = "0.50" -> "0.5"
      [] OTHER -> "NaN"

Step(on, cmd, args) == [on |-> on, cmd |-> cmd, args |-> args]

\* addCommand that forgets to advance currentInput.
addCommand_InputNotAdvanced(acc, output, cmd, args) ==
    [commands |-> Append(acc.commands,
                         [cmd |-> cmd, input |-> acc.currentInput,
                          output |-> output, args |-> args]),
     currentInput |-> acc.currentInput]

\* addCommand: push `gltf-transform cmd currentInput output args`, then
\* currentInput = output.
addCommand(acc, output, cmd, args) ==
    [commands |-> Append(acc.commands,
                         [cmd |-> cmd, input |-> acc.currentInput,
                          output |-> output, args |-> args]),
     currentInput |-> output]

\* Steps 1-5 with dedup pushed a second time after join.
SceneSteps_DedupTwice(values) ==
    << Step(values.dedup, "dedup", <<>>),
       Step(values.instance, "instance", <<"--min", orDefault(values.instanceMin, "5")>>),
       Step(values.palette, "palette", <<"--min", orDefault(values.paletteMin, "5")>>),
       Step(values.flatten, "flatten", <<>>),
       Step(values.join, "join", <<>>),
       Step(values.dedup, "dedup", <<>>) >>

\* Steps 1-5: dedup, instance, palette, flatten, join.
SceneSteps(values) ==
    << Step(values.dedup, "dedup", <<>>),
       Step(values.instance, "instance", <<"--min", orDefault(values.instanceMin, "5")>>),
       Step(values.palette, "palette", <<"--min", orDefault(values.paletteMin, "5")>>),
       Step(values.flatten, "flatten", <<>>),
       Step(values.join, "join", <<>>) >>

\* Steps 6-7 in the opposite order.
MeshSteps_SimplifyFirst(values) ==
    << Step(values.simplify, "simplify",
            <<"--ratio", parseFloatText(orDefault(values.simplifyRatio, "0.75"))>>),
       Step(values.weld, "weld", <<>>) >>

\* Steps 6-7: weld, simplify.
MeshSteps(values) ==
    << Step(values.weld, "weld", <<>>),
       Step(values.simplify, "simplify",
            <<"--ratio", parseFloatText(orDefault(values.simplifyRatio, "0.75"))>>) >>

\* Steps 8-10: resample, prune, sparse.
AnimationSteps(values) ==
    << Step(values.resample, "resample", <<>>),
       Step(values.prune, "prune", <<>>),
       Step(values.sparse, "sparse", <<>>) >>

\* Step 11's command name: format === "ktx2" ? "etc1s" : format
textureCmd(format) == IF format = "ktx2" THEN "etc1s" ELSE format

\* Steps 11-12: texture compression, texture resize.
TextureSteps(values) ==
    << Step(values.textureCompression # "none", textureCmd(values.textureCompression), <<>>),
       Step(values.textureResize # "none", "resize",
            <<"--width", values.textureResize, "--height", values.textureResize>>) >>

\* Step 13: geometry compression.
GeometrySteps(values) ==
    << Step(values.geometryCompression # "none", values.geometryCompression, <<>>) >>

\* The thirteen steps with geometry compression moved before the texture steps.
StepList_GeometryEarly(values) ==
    SceneSteps(values) \o MeshSteps(values) \o AnimationSteps(values)
        \o GeometrySteps(values) \o TextureSteps(values)

\* The thirteen `if` blocks of transformGlb, in source order.
StepList(values) ==
    SceneSteps(values) \o MeshSteps(values) \o AnimationSteps(values)
        \o TextureSteps(values) \o GeometrySteps(values)

\* Runs the `if` blocks in order: an enabled step calls addCommand.
RECURSIVE addSteps(_, _, _)
addSteps(steps, acc, output) ==
    IF steps = <<>> THEN acc
    ELSE addSteps(Tail(steps),
                  IF Head(steps).on
                  THEN addCommand(acc, output, Head(steps).cmd, Head(steps).args)
                  ELSE acc,
                  output)

\* The fallback left out.
copyFallback_Never(acc, output) == acc

\* if (commands.length === 0) addCommand("copy")
copyFallback(acc, output) ==
    IF Len(acc.commands) = 0 THEN addCommand(acc, output, "copy", <<>>) ELSE acc

\* The command list transformGlb builds for filePath under values.
buildCommands(filePath, values) ==
    LET output == outputPathOf(filePath, "advanced")
        start == [commands |-> <<>>, currentInput |-> filePath]
    IN  copyFallback(addSteps(StepList(values), start, output), output).commands

\* compressGlb's single `optimize` command.
optimizeCommand(filePath, mode) ==
    << [cmd |-> "optimize", input |-> filePath, output |-> outputPathOf(filePath, mode),
        args |-> CASE mode = "draco" -> <<"--compress", "draco">>
                   [] mode = "ktx" -> <<"--texture-compress", "ktx2">>
                   [] mode = "full" -> <<"--compress", "draco", "--texture-compress", "ktx2">>] >>

(***************************************************************************)
(* formatBytes.  A byte count is kept as its base-1024 digits, least       *)
(* significant first and without leading zeros (0 is the empty sequence),  *)
(* so that counts of a terabyte and more stay within the integers of the   *)
(* model; neg marks a negative number.                                     *)
(***************************************************************************)
\* const k = 1024
KILO == 1024

\* const sizes = ["Bytes", "KB", "MB", "GB"]
sizes == <<"Bytes", "KB", "MB", "GB">>

RECURSIVE toDigits(_)
toDigits(n) == IF n = 0 THEN <<>> ELSE <<n % KILO>> \o toDigits(n \div KILO)

\* The number n as a byte count.
Num(n) == [neg |-> n < 0, digits |-> toDigits(IF n < 0 THEN 0 - n ELSE n)]

\* i computed with the logarithm rounded up.
unitIndex_RoundedUp(digits) == Len(digits)

\* i = Math.floor(Math.log(bytes) / Math.log(k)) for bytes >= 1: the position
\* of the leading base-k digit.
unitIndex(digits) == Len(digits) - 1

\* floor(100 * f), f the fraction whose base-k digits are digits[1..n], the
\* most significant last.
RECURSIVE fractionHundredths(_, _)
fractionHundredths(digits, n) ==
    IF n = 0 THEN 0
    ELSE (100 * digits[n] + fractionHundredths(digits, n - 1)) \div KILO

\* (bytes / Math.pow(k, i)).toFixed(2), as a number of hundredths: the scaled
\* value rounded to the nearest hundredth, halves upwards.
scaledHundredths(digits) ==
    LET n == Len(digits)
    IN  IF n = 1 THEN 100 * digits[1]
        ELSE 100 * digits[n]
             + (100 * digits[n - 1] + fractionHundredths(digits, n - 2) + KILO \div 2)
                   \div KILO

\* toFixed(2) as text.
fixedText(h) ==
    ToString(h \div 100) \o "." \o (IF h % 100 < 10 THEN "0" ELSE "")
        \o ToString(h % 100)

\* parseFloat(text) + "": the number without trailing zeros.
floatText(h) ==
    IF h % 100 = 0 THEN ToString(h \div 100)
    ELSE IF h % 10 = 0 THEN ToString(h \div 100) \o "." \o ToString((h % 100) \div 10)
    ELSE fixedText(h)

\* sizes[i]; an index outside the array reads undefined.
unitName(idx) == IF idx + 1 \in DOMAIN sizes THEN sizes[idx + 1] ELSE "undefined"

\* formatBytes(bytes): the words of the text, with the index and the
\* hundredths they come from.  Math.log of a negative number is NaN.
formatBytes(bytes) ==
    IF ~bytes.neg /\ bytes.digits = <<>>
    THEN [text |-> <<"0", "Bytes">>, index |-> 0, hundredths |-> 0]
    ELSE IF bytes.neg
    THEN [text |-> <<"NaN", "undefined">>, index |-> "NaN", hundredths |-> "NaN"]
    ELSE [text |-> <<floatText(scaledHundredths(bytes.digits)),
                     unitName(unitIndex(bytes.digits))>>,
          index |-> unitIndex(bytes.digits),
          hundredths |-> scaledHundredths(bytes.digits)]

(***************************************************************************)
(* State.                                                                  *)
(***************************************************************************)
VARIABLES
    \* the pipeline builder applied to one configuration
    bPc, bValues, bFilePath, bCommands,
    \* the output naming applied to one selected path
    nPc, nMode, nPath, nOutput,
    \* one batch run: handleSubmit (entry "advanced") or processGlbFiles(entry)
    pc,             \* the await the run is suspended at
    entry,          \* "advanced", "draco", "ktx" or "full"
    values,         \* the submitted form values (advanced only)
    isLoading,      \* the form's isLoading state
    selectedItems,  \* what getSelectedFinderItems returned
    glbFiles,       \* selectedItems after the .glb filter
    i,              \* the loop index (0-based)
    toast,          \* the progress toast's message
    results,        \* CompressionResult[]
    originalSize,   \* transformGlb / compressGlb local
    commands,       \* the current file's command list
    ci,             \* 1-based index of the command in flight
    popped,         \* popToRoot was called
    log,            \* history: every call to a collaborator, in order
    \* formatBytes applied to one byte count
    fPc, fBytes, fOut,
    \* the summary of one result list
    sPc, sEntry, sModeName, sResults, sOut,
    \* the notifications of the four ways a run ends without a success
    mPc, mEntry, mThrown, mFailed, mOut,
    \* the inspection view: the reports, the index of the one on display and
    \* the navigation actions taken so far
    vResults, selectedFileIndex, vNav,
    \* runInspection of the inspection view
    iPc, iLoading, iGlb, iPending, iSettled, iLog

buildVars == <<bPc, bValues, bFilePath, bCommands>>
nameVars == <<nPc, nMode, nPath, nOutput>>
batchVars == <<pc, entry, values, isLoading, selectedItems, glbFiles, i, toast,
               results, originalSize, commands, ci, popped, log>>
formatVars == <<fPc, fBytes, fOut>>
summaryVars == <<sPc, sEntry, sModeName, sResults, sOut>>
messageVars == <<mPc, mEntry, mThrown, mFailed, mOut>>
viewVars == <<vResults, selectedFileIndex, vNav>>
inspectVars == <<iPc, iLoading, iGlb, iPending, iSettled, iLog>>
auxVars == <<formatVars, summaryVars, messageVars, viewVars, inspectVars>>
vars == <<buildVars, nameVars, batchVars, auxVars>>

\* File names and directories the selection is drawn from.
Stems == { <<"a">>, <<"b", "c">>, <<"a">> \o Str_glb, <<"a">> \o Str_draco, <<"a">> \o Str_optimized }
Extensions == { Str_glb, Str_GLB, Str_Glb, Str_txt, Str_bak }
Directories == { <<SLASH, "d">>, <<SLASH, "d", SLASH, "e">> \o Str_glb, <<SLASH>> }
CandidatePaths == { join(d, s \o e) : d \in Directories, s \in Stems, e \in Extensions }

Path_a_glb == <<SLASH, "d", SLASH, "a">> \o Str_glb
Path_a_GLB == <<SLASH, "d", SLASH, "a">> \o Str_GLB
Path_a_draco_glb == <<SLASH, "d", SLASH, "a">> \o Str_draco \o Str_glb
Path_n_txt == <<SLASH, "d", SLASH, "n">> \o Str_txt

BuildIdle ==
    /\ bPc = "idle" /\ bValues = <<>> /\ bFilePath = <<>> /\ bCommands = <<>>
NameIdle ==
    /\ nPc = "idle" /\ nMode = "advanced" /\ nPath = <<>> /\ nOutput = <<>>
BatchIdle ==
    /\ pc = "idle" /\ entry = "none" /\ values = <<>> /\ isLoading = FALSE
    /\ selectedItems = <<>> /\ glbFiles = <<>> /\ i = 0 /\ toast = <<>>
    /\ results = <<>> /\ originalSize = 0 /\ commands = <<>> /\ ci = 0
    /\ popped = FALSE /\ log = <<>>

FormatIdle ==
    /\ fPc = "idle" /\ fBytes = <<>> /\ fOut = <<>>
SummaryIdle ==
    /\ sPc = "idle" /\ sEntry = "advanced" /\ sModeName = "" /\ sResults = <<>>
    /\ sOut = <<>>
MessagesIdle ==
    /\ mPc = "idle" /\ mEntry = "advanced" /\ mThrown = <<>> /\ mFailed = 0
    /\ mOut = <<>>
ViewIdle ==
    /\ vResults = <<>> /\ selectedFileIndex = 0 /\ vNav = <<>>
InspectIdle ==
    /\ iPc = "idle" /\ iLoading = FALSE /\ iGlb = <<>> /\ iPending = {}
    /\ iSettled = <<>> /\ iLog = <<>>
AuxIdle == FormatIdle /\ SummaryIdle /\ MessagesIdle /\ ViewIdle /\ InspectIdle

(***************************************************************************)
(* The pipeline builder on every configuration of the form.                *)
(***************************************************************************)
InitBuild ==
    /\ bPc = "submitted"
    /\ bValues \in FormValues
    /\ bFilePath = Path_a_GLB
    /\ bCommands = <<>>
    /\ NameIdle
    /\ BatchIdle
    /\ AuxIdle

BuildChain ==
    /\ bPc = "submitted"
    /\ bCommands' = buildCommands(bFilePath, bValues)
    /\ bPc' = "built"
    /\ UNCHANGED <<bValues, bFilePath, nameVars, batchVars, auxVars>>

NextBuild == BuildChain

SpecBuild == InitBuild /\ [][NextBuild]_vars

(***************************************************************************)
(* The output naming on every candidate path and mode.                     *)
(***************************************************************************)
InitName ==
    /\ nPc = "selected"
    /\ nMode \in Modes
    /\ nPath \in CandidatePaths
    /\ nOutput = <<>>
    /\ BuildIdle
    /\ BatchIdle
    /\ AuxIdle

\* A selected path that passes the filter reaches transformGlb / compressGlb.
NameOutput ==
    /\ nPc = "selected"
    /\ IsGlbFile(nPath)
    /\ nOutput' = outputPathOf(nPath, nMode)
    /\ nPc' = "named"
    /\ UNCHANGED <<nMode, nPath, buildVars, batchVars, auxVars>>

\* A selected path that fails the filter is dropped.
NameSkip ==
    /\ nPc = "selected"
    /\ ~IsGlbFile(nPath)
    /\ nPc' = "skipped"
    /\ UNCHANGED <<nMode, nPath, nOutput, buildVars, batchVars, auxVars>>

NextName == NameOutput \/ NameSkip

SpecName == InitName /\ [][NextName]_vars

(***************************************************************************)
(* formatBytes on byte counts of up to MaxDigits base-1024 digits.         *)
(***************************************************************************)
\* Digits the byte counts are made of.
DigitSamples == {0, 1, 512, 1023}

FormatInputs ==
    {<<>>} \cup
    {d \in UNION {[1..n -> DigitSamples] : n \in 1..MaxDigits} : d[Len(d)] # 0}

InitFormat ==
    /\ fPc = "called"
    /\ fBytes \in FormatInputs
    /\ fOut = <<>>
    /\ BuildIdle
    /\ NameIdle
    /\ BatchIdle
    /\ SummaryIdle
    /\ MessagesIdle
    /\ ViewIdle
    /\ InspectIdle

FormatBytes ==
    /\ fPc = "called"
    /\ fOut' = formatBytes([neg |-> FALSE, digits |-> fBytes])
    /\ fPc' = "formatted"
    /\ UNCHANGED <<fBytes, buildVars, nameVars, batchVars, summaryVars, messageVars,
                   viewVars, inspectVars>>

NextFormat == FormatBytes

SpecFormat == InitFormat /\ [][NextFormat]_vars

(***************************************************************************)
(* One batch run: handleSubmit of the advanced form, processGlbFiles of    *)
(* the three fixed modes.  An action is the code that runs between two     *)
(* awaits; pc names the await the run is suspended at.                     *)
(***************************************************************************)
\* The paths the Finder selection is drawn from.
FinderPaths == {Path_a_glb, Path_a_draco_glb, Path_a_GLB, Path_n_txt}

\* A Finder selection: up to MaxSelected different items, in selection order.
Selections ==
    {sel \in UNION {[1..n -> FinderPaths] : n \in 0..MaxSelected} :
        \A j, k \in DOMAIN sel : j # k => sel[j] # sel[k]}

\* Messages getSelectedFinderItems rejects with, as words.
SelectionErrors == { <<"Finder", "isn't", "the", "frontmost", "application">>,
                     <<"Could", "not", "get", "selection">> }
\* Messages stat and exec reject with.
StatErrors == { "ENOENT: no such file or directory" }
ExecErrors == { "Command failed" }
\* Sizes stat reports: an empty file and a non-empty one.
FileSizes == {0, 100}

\* errorMessage.includes(word)
includes(message, word) == \E k \in 1..Len(message) : message[k] = word

\* Form values submitted in the batch runs: nothing enabled, weld with
\* simplify, and dedup + weld + draco.
NothingEnabled ==
    [geometryCompression |-> "none", textureCompression |-> "none",
     textureResize |-> "none",
     dedup |-> FALSE, flatten |-> FALSE, join |-> FALSE, weld |-> FALSE,
     prune |-> FALSE, resample |-> FALSE, sparse |-> FALSE,
     instance |-> FALSE, instanceMin |-> "", palette |-> FALSE, paletteMin |-> "",
     simplify |-> FALSE, simplifyRatio |-> ""]
SubmittedValues ==
    { NothingEnabled,
      [NothingEnabled EXCEPT !.weld = TRUE, !.simplify = TRUE],
      [NothingEnabled EXCEPT !.dedup = TRUE, !.weld = TRUE,
                             !.geometryCompression = "draco"] }

\* A filter that lets every selected item through.
filterGlb_KeepsAll(items) == items

\* selectedItems.filter((item) => item.path.toLowerCase().endsWith(".glb"))
filterGlb(items) == SelectSeq(items, IsGlbFile)

\* The commands of one file: transformGlb's chain, or compressGlb's one command.
chainOf(filePath) ==
    IF entry = "advanced" THEN buildCommands(filePath, values)
    ELSE optimizeCommand(filePath, entry)

\* The two shapes of CompressionResult the code returns.
successResult(filePath, original, compressed) ==
    [file |-> basename(filePath), success |-> TRUE,
     originalSize |-> original, compressedSize |-> compressed]
failureResult(filePath, message) ==
    [file |-> basename(filePath), success |-> FALSE, error |-> message]

\* r.originalSize || 0  and  r.compressedSize || 0
sizeOrZero(r, fld) == IF fld \in DOMAIN r THEN r[fld] ELSE 0

\* list.reduce((acc, r) => acc + (r[fld] || 0), 0)
RECURSIVE total(_, _)
total(list, fld) ==
    IF list = <<>> THEN 0 ELSE sizeOrZero(Head(list), fld) + total(Tail(list), fld)

IsSuccess(r) == r.success
IsFailure(r) == ~r.success

\* A classification that calls a batch with any success all-succeeded.
summaryHud_AnySuccess(list) ==
    LET successful == SelectSeq(list, IsSuccess)
        failed == SelectSeq(list, IsFailure)
    IN  IF Len(successful) > 0
        THEN [kind |-> "allSucceeded", successful |-> Len(successful), failed |-> 0,
              totalOriginal |-> total(successful, "originalSize"),
              savings |-> total(successful, "originalSize")
                             - total(successful, "compressedSize")]
        ELSE [kind |-> "allFailed", successful |-> 0, failed |-> Len(failed)]

\* The terminal notification after the loop.
summaryHud(list) ==
    LET successful == SelectSeq(list, IsSuccess)
        failed == SelectSeq(list, IsFailure)
    IN  IF Len(failed) = 0
        THEN [kind |-> "allSucceeded", successful |-> Len(successful), failed |-> 0,
              totalOriginal |-> total(successful, "originalSize"),
              savings |-> total(successful, "originalSize")
                             - total(successful, "compressedSize")]
        ELSE IF Len(successful) = 0
        THEN [kind |-> "allFailed", successful |-> 0, failed |-> Len(failed)]
        ELSE [kind |-> "mixed", successful |-> Len(successful), failed |-> Len(failed)]

\* A percentage cut off after its first decimal instead of rounded.
percentText_Truncated(savings, totalOriginal) ==
    IF totalOriginal = 0
    THEN (IF savings = 0 THEN "NaN" ELSE IF savings < 0 THEN "-Infinity" ELSE "Infinity")
    ELSE LET magnitude == IF savings < 0 THEN 0 - savings ELSE savings
             tenths == (1000 * magnitude) \div totalOriginal
         IN  (IF savings < 0 THEN "-" ELSE "") \o ToString(tenths \div 10) \o "."
                 \o ToString(tenths % 10)

\* ((savings / totalOriginal) * 100).toFixed(1): the quotient rounded to the
\* nearest tenth of its magnitude, halves upwards, with its sign; a division
\* by zero gives NaN or an infinity.
percentText(savings, totalOriginal) ==
    IF totalOriginal = 0
    THEN (IF savings = 0 THEN "NaN" ELSE IF savings < 0 THEN "-Infinity" ELSE "Infinity")
    ELSE LET magnitude == IF savings < 0 THEN 0 - savings ELSE savings
             tenths == (2000 * magnitude + totalOriginal) \div (2 * totalOriginal)
         IN  (IF savings < 0 THEN "-" ELSE "") \o ToString(tenths \div 10) \o "."
                 \o ToString(tenths % 10)

\* The signs the notifications start with.
CHECKMARK == "(check)"
CROSS == "(cross)"
WARNING == "(warning)"

\* `file${n > 1 ? "s" : ""}`
fileWord(n) == IF n > 1 THEN "files" ELSE "file"

\* A summary that leaves the savings out of the all-succeeded text.
hudText_CountsOnly(mode, modeName, hud) ==
    IF hud.kind = "allSucceeded" THEN <<CHECKMARK, ToString(hud.successful), "optimized">>
    ELSE IF hud.kind = "allFailed" THEN <<CROSS, "Failed", ToString(hud.failed)>>
    ELSE <<WARNING, ToString(hud.successful), "optimized,", ToString(hud.failed), "failed">>

\* The words of the text handed to showHUD, for handleSubmit (mode "advanced")
\* and for processGlbFiles(mode, modeName).
hudText(mode, modeName, hud) ==
    CASE hud.kind = "noSelection" -> <<CROSS, "No", "files", "selected", "in", "Finder">>
      [] hud.kind = "noGlbFiles" -> <<CROSS, "No", "GLB", "files", "selected">>
      [] hud.kind = "selectInFinder" ->
            IF mode = "advanced"
            THEN <<CROSS, "Select", "files", "in", "Finder", "first">>
            ELSE <<CROSS, "Could", "not", "get", "Finder", "selection.", "Please",
                   "select", "files", "in", "Finder", "first.">>
      [] hud.kind = "error" -> <<CROSS, "Error:">> \o hud.message
      [] hud.kind = "allSucceeded" ->
            (IF mode = "advanced" THEN <<CHECKMARK, "Optimized">>
             ELSE <<CHECKMARK, modeName \o ":">>)
            \o <<ToString(hud.successful), fileWord(hud.successful), "-", "Saved">>
            \o formatBytes(Num(hud.savings)).text
            \o <<"(" \o percentText(hud.savings, hud.totalOriginal) \o "%)">>
      [] hud.kind = "allFailed" ->
            <<CROSS, "Failed", "to",
              IF mode = "advanced" THEN "optimize" ELSE "compress",
              ToString(hud.failed), fileWord(hud.failed)>>
      [] hud.kind = "mixed" ->
            <<WARNING, ToString(hud.successful),
              IF mode = "advanced" THEN "optimized," ELSE "compressed,",
              ToString(hud.failed), "failed">>

\* A catch block that reports a rejected selection like an empty one.
thrownHud_AsEmptySelection(message) == [kind |-> "noSelection"]

\* The catch block of handleSubmit and of processGlbFiles:
\* errorMessage.includes("Finder") picks the notification.
thrownHud(message) ==
    [kind |-> IF includes(message, "Finder") THEN "selectInFinder" ELSE "error",
     message |-> message]

\* History events.
EvProgress(f) == [op |-> "progress", file |-> f]
EvStat(f, path, ok) == [op |-> "stat", file |-> f, path |-> path, ok |-> ok]
EvStart(f, k, command) == [op |-> "start", file |-> f, k |-> k, command |-> command]
EvExit(f, k, ok) == [op |-> "exit", file |-> f, k |-> k, ok |-> ok]
EvResult(f) == [op |-> "result", file |-> f]
EvHud(hud) == [op |-> "hud", hud |-> hud]

\* toast.message = `Processing ${i + 1}/${glbFiles.length}: ${basename}`
progressMessage(f, files) ==
    [index |-> f, of |-> Len(files), name |-> basename(files[f])]

InitBatch ==
    /\ BatchIdle
    /\ BuildIdle
    /\ NameIdle
    /\ AuxIdle

\* The user runs a command: handleSubmit(values) or processGlbFiles(mode);
\* the run suspends in getSelectedFinderItems.
Launch ==
    /\ pc = "idle"
    /\ \E e \in Modes :
          /\ entry' = e
          /\ isLoading' = (e = "advanced")
          /\ IF e = "advanced"
             THEN \E v \in SubmittedValues : values' = v
             ELSE values' = values
    /\ pc' = "getSelection"
    /\ UNCHANGED <<selectedItems, glbFiles, i, toast, results, originalSize,
                   commands, ci, popped, log, buildVars, nameVars, auxVars>>

\* getSelectedFinderItems resolves: the two early exits, or the toast.
SelectionReturns ==
    /\ pc = "getSelection"
    /\ \E sel \in Selections :
          /\ selectedItems' = sel
          /\ IF Len(sel) = 0
             THEN /\ log' = Append(log, EvHud([kind |-> "noSelection"]))
                  /\ pc' = "hudEarly"
                  /\ UNCHANGED glbFiles
             ELSE IF Len(filterGlb(sel)) = 0
             THEN /\ glbFiles' = filterGlb(sel)
                  /\ log' = Append(log, EvHud([kind |-> "noGlbFiles"]))
                  /\ pc' = "hudEarly"
             ELSE /\ glbFiles' = filterGlb(sel)
                  /\ pc' = "toast"
                  /\ UNCHANGED log
    /\ UNCHANGED <<entry, values, isLoading, i, toast, results, originalSize,
                   commands, ci, popped, buildVars, nameVars, auxVars>>

\* getSelectedFinderItems rejects: the outer catch picks the notification.
SelectionThrows ==
    /\ pc = "getSelection"
    /\ \E message \in SelectionErrors :
          log' = Append(log, EvHud(thrownHud(message)))
    /\ pc' = "hud"
    /\ UNCHANGED <<entry, values, isLoading, selectedItems, glbFiles, i, toast,
                   results, originalSize, commands, ci, popped, buildVars, nameVars, auxVars>>

\* A progress message that keeps the name of the first file.
BeginFile_StaleName(f, history) ==
    /\ toast' = [progressMessage(f, glbFiles) EXCEPT !.name = basename(glbFiles[1])]
    /\ log' = Append(history, EvProgress(f))
    /\ pc' = "statOriginal"

\* The loop body up to its first await, for file f (1-based): the progress
\* message, then transformGlb / compressGlb suspends in getFileSize(filePath).
BeginFile(f, history) ==
    /\ toast' = progressMessage(f, glbFiles)
    /\ log' = Append(history, EvProgress(f))
    /\ pc' = "statOriginal"

\* A loop that shows the summary after every file.
FinishFile_HudPerFile(result, history) ==
    /\ results' = Append(results, result)
    /\ i' = i + 1
    /\ IF i + 1 < Len(glbFiles)
       THEN BeginFile(i + 2, Append(Append(history, EvResult(i + 1)),
                                    EvHud(summaryHud(Append(results, result)))))
       ELSE /\ log' = Append(Append(history, EvResult(i + 1)),
                             EvHud(summaryHud(Append(results, result))))
            /\ pc' = "hud"
            /\ UNCHANGED toast

\* results.push(result); i++; then the next file, or the summary notification.
FinishFile(result, history) ==
    /\ results' = Append(results, result)
    /\ i' = i + 1
    /\ IF i + 1 < Len(glbFiles)
       THEN BeginFile(i + 2, Append(history, EvResult(i + 1)))
       ELSE /\ log' = Append(Append(history, EvResult(i + 1)),
                             EvHud(summaryHud(Append(results, result))))
            /\ pc' = "hud"
            /\ UNCHANGED toast

\* showToast resolves: results = [], i = 0, first iteration.
ToastShown ==
    /\ pc = "toast"
    /\ results' = <<>>
    /\ i' = 0
    /\ BeginFile(1, log)
    /\ UNCHANGED <<entry, values, isLoading, selectedItems, glbFiles,
                   originalSize, commands, ci, popped, buildVars, nameVars, auxVars>>

\* The commands of a chain are started without waiting for one another.
StatOriginalOk_StartsTwo ==
    /\ pc = "statOriginal"
    /\ \E size \in FileSizes : originalSize' = size
    /\ commands' = chainOf(glbFiles[i + 1])
    /\ ci' = 1
    /\ log' = LET chain == chainOf(glbFiles[i + 1])
                  started == Append(Append(log, EvStat(i + 1, glbFiles[i + 1], TRUE)),
                                    EvStart(i + 1, 1, chain[1]))
              IN  IF Len(chain) > 1 THEN Append(started, EvStart(i + 1, 2, chain[2]))
                  ELSE started
    /\ pc' = "running"
    /\ UNCHANGED <<entry, values, isLoading, selectedItems, glbFiles, i, toast,
                   results, popped, buildVars, nameVars, auxVars>>

\* getFileSize(filePath) resolves: the commands are built and the first is run.
StatOriginalOk ==
    /\ pc = "statOriginal"
    /\ \E size \in FileSizes : originalSize' = size
    /\ commands' = chainOf(glbFiles[i + 1])
    /\ ci' = 1
    /\ log' = Append(Append(log, EvStat(i + 1, glbFiles[i + 1], TRUE)),
                     EvStart(i + 1, 1, chainOf(glbFiles[i + 1])[1]))
    /\ pc' = "running"
    /\ UNCHANGED <<entry, values, isLoading, selectedItems, glbFiles, i, toast,
                   results, popped, buildVars, nameVars, auxVars>>

\* getFileSize(filePath) rejects: the catch returns a failure result.
StatOriginalFails ==
    /\ pc = "statOriginal"
    /\ \E message \in StatErrors :
          FinishFile(failureResult(glbFiles[i + 1], message),
                     Append(log, EvStat(i + 1, glbFiles[i + 1], FALSE)))
    /\ UNCHANGED <<entry, values, isLoading, selectedItems, glbFiles,
                   originalSize, commands, ci, popped, buildVars, nameVars, auxVars>>

\* A failed command is skipped over and the chain goes on.
CommandFails_KeepsGoing ==
    /\ pc = "running"
    /\ ci < Len(commands)
    /\ ci' = ci + 1
    /\ log' = Append(Append(log, EvExit(i + 1, ci, FALSE)),
                     EvStart(i + 1, ci + 1, commands[ci + 1]))
    /\ UNCHANGED <<pc, entry, values, isLoading, selectedItems, glbFiles, i, toast,
                   results, originalSize, commands, popped, buildVars, nameVars, auxVars>>

\* A failed command is not caught per file and ends the batch in the outer catch.
CommandFails_AbortsBatch ==
    /\ pc = "running"
    /\ \E message \in ExecErrors :
          log' = Append(Append(log, EvExit(i + 1, ci, FALSE)),
                        EvHud([kind |-> "error", message |-> <<message>>]))
    /\ pc' = "hud"
    /\ UNCHANGED <<entry, values, isLoading, selectedItems, glbFiles, i, toast,
                   results, originalSize, commands, ci, popped, buildVars, nameVars, auxVars>>

\* execAsync resolves: the next command is run, or getFileSize(outputPath).
CommandExitsOk ==
    /\ pc = "running"
    /\ IF ci < Len(commands)
       THEN /\ ci' = ci + 1
            /\ log' = Append(Append(log, EvExit(i + 1, ci, TRUE)),
                             EvStart(i + 1, ci + 1, commands[ci + 1]))
            /\ pc' = "running"
       ELSE /\ log' = Append(log, EvExit(i + 1, ci, TRUE))
            /\ pc' = "statOutput"
            /\ UNCHANGED ci
    /\ UNCHANGED <<entry, values, isLoading, selectedItems, glbFiles, i, toast,
                   results, originalSize, commands, popped, buildVars, nameVars, auxVars>>

\* execAsync rejects: the rest of the chain is dropped, the catch returns a
\* failure result.
CommandFails ==
    /\ pc = "running"
    /\ \E message \in ExecErrors :
          FinishFile(failureResult(glbFiles[i + 1], message),
                     Append(log, EvExit(i + 1, ci, FALSE)))
    /\ UNCHANGED <<entry, values, isLoading, selectedItems, glbFiles,
                   originalSize, commands, ci, popped, buildVars, nameVars, auxVars>>

\* getFileSize(outputPath) resolves: the success result.
StatOutputOk ==
    /\ pc = "statOutput"
    /\ \E size \in FileSizes :
          FinishFile(successResult(glbFiles[i + 1], originalSize, size),
                     Append(log, EvStat(i + 1, commands[1].output, TRUE)))
    /\ UNCHANGED <<entry, values, isLoading, selectedItems, glbFiles,
                   originalSize, commands, ci, popped, buildVars, nameVars, auxVars>>

\* An output whose size cannot be read counts as a success of size 0.
StatOutputFails_StillSuccess ==
    /\ pc = "statOutput"
    /\ FinishFile(successResult(glbFiles[i + 1], originalSize, 0),
                  Append(log, EvStat(i + 1, commands[1].output, FALSE)))
    /\ UNCHANGED <<entry, values, isLoading, selectedItems, glbFiles,
                   originalSize, commands, ci, popped, buildVars, nameVars, auxVars>>

\* getFileSize(outputPath) rejects: the catch returns a failure result.
StatOutputFails ==
    /\ pc = "statOutput"
    /\ \E message \in StatErrors :
          FinishFile(failureResult(glbFiles[i + 1], message),
                     Append(log, EvStat(i + 1, commands[1].output, FALSE)))
    /\ UNCHANGED <<entry, values, isLoading, selectedItems, glbFiles,
                   originalSize, commands, ci, popped, buildVars, nameVars, auxVars>>

\* showHUD resolves.  handleSubmit: an early exit returns after
\* setIsLoading(false); otherwise setIsLoading(false), then popToRoot.
\* processGlbFiles returns.
HudShown ==
    /\ pc \in {"hud", "hudEarly"}
    /\ isLoading' = FALSE
    /\ pc' = IF entry = "advanced" /\ pc = "hud" THEN "popToRoot" ELSE "done"
    /\ UNCHANGED <<entry, values, selectedItems, glbFiles, i, toast, results,
                   originalSize, commands, ci, popped, log, buildVars, nameVars, auxVars>>

\* popToRoot resolves.
PopToRoot ==
    /\ pc = "popToRoot"
    /\ popped' = TRUE
    /\ pc' = "done"
    /\ UNCHANGED <<entry, values, isLoading, selectedItems, glbFiles, i, toast,
                   results, originalSize, commands, ci, log, buildVars, nameVars, auxVars>>

Next ==
    \/ Launch
    \/ SelectionReturns
    \/ SelectionThrows
    \/ ToastShown
    \/ StatOriginalOk
    \/ StatOriginalFails
    \/ CommandExitsOk
    \/ CommandFails
    \/ StatOutputOk
    \/ StatOutputFails
    \/ HudShown
    \/ PopToRoot

Spec == InitBatch /\ [][Next]_vars

(***************************************************************************)
(* Properties of the pipeline builder (SpecBuild).                         *)
(***************************************************************************)
\* The fixed priority order of the thirteen steps.
PriorityOrder ==
    << "dedup", "instance", "palette", "flatten", "join", "weld", "simplify",
       "resample", "prune", "sparse", "texture-codec", "resize", "geometry-codec" >>

\* The step a command name stands for.
StepClass(cmd) ==
    IF cmd \in {"etc1s", "webp", "avif", "png", "jpeg"} THEN "texture-codec"
    ELSE IF cmd \in {"draco", "meshopt"} THEN "geometry-codec"
    ELSE cmd

\* Position of a step in the priority order, 0 for a command outside it.
Rank(class) ==
    IF \E k \in 1..Len(PriorityOrder) : PriorityOrder[k] = class
    THEN CHOOSE k \in 1..Len(PriorityOrder) : PriorityOrder[k] = class
    ELSE 0

\* The steps a configuration enables.
EnabledSteps(v) ==
    {c \in {"dedup", "instance", "palette", "flatten", "join", "weld", "simplify",
            "resample", "prune", "sparse"} : v[c]}
    \cup (IF v.textureCompression # "none" THEN {"texture-codec"} ELSE {})
    \cup (IF v.textureResize # "none" THEN {"resize"} ELSE {})
    \cup (IF v.geometryCompression # "none" THEN {"geometry-codec"} ELSE {})

\* A command list that is a subsequence of the priority order and holds exactly
\* the enabled steps, each once.
FollowsPriorityOrder(cmds, v) ==
    /\ \A k \in 1..Len(cmds) : Rank(StepClass(cmds[k].cmd)) > 0
    /\ \A j, k \in 1..Len(cmds) :
          j < k => Rank(StepClass(cmds[j].cmd)) < Rank(StepClass(cmds[k].cmd))
    /\ {StepClass(cmds[k].cmd) : k \in 1..Len(cmds)} = EnabledSteps(v)

\* C1 as stated: for every configuration the command list is a subsequence of
\* the fixed priority order holding every enabled step once and no other.
C1_AlwaysInPriorityOrder ==
    bPc = "built" => FollowsPriorityOrder(bCommands, bValues)

\* C1 amended: for every configuration that enables at least one step the
\* command list is a subsequence of the fixed priority order holding every
\* enabled step once and no other; with no step enabled the list holds the
\* copy command, which is outside the order.
C1_InPriorityOrderWhenAnyEnabled ==
    bPc = "built" =>
        IF EnabledSteps(bValues) # {}
        THEN FollowsPriorityOrder(bCommands, bValues)
        ELSE \A k \in 1..Len(bCommands) : bCommands[k].cmd = "copy"

\* All thirteen steps enabled and built.
C1_Witness ==
    /\ bPc = "built"
    /\ Cardinality(EnabledSteps(bValues)) = 13
    /\ Len(bCommands) = 13

\* C2: when weld and simplify are both enabled, both commands are in the list
\* and weld comes strictly before simplify.
C2_WeldBeforeSimplify ==
    (bPc = "built" /\ bValues.weld /\ bValues.simplify) =>
        /\ \E j, k \in 1..Len(bCommands) :
              j < k /\ bCommands[j].cmd = "weld" /\ bCommands[k].cmd = "simplify"
        /\ \A j, k \in 1..Len(bCommands) :
              (bCommands[j].cmd = "simplify" /\ bCommands[k].cmd = "weld") => k < j

\* weld and simplify enabled, dedup disabled, other steps enabled around them.
C2_Witness ==
    /\ bPc = "built"
    /\ bValues.weld /\ bValues.simplify /\ ~bValues.dedup
    /\ bValues.join /\ bValues.resample

\* C3: when the geometry codec is not "none", its command is the last of the
\* list and occurs nowhere else.
C3_GeometryCodecLast ==
    (bPc = "built" /\ bValues.geometryCompression # "none") =>
        /\ Len(bCommands) >= 1
        /\ bCommands[Len(bCommands)].cmd = bValues.geometryCompression
        /\ \A k \in 1..(Len(bCommands) - 1) :
              StepClass(bCommands[k].cmd) # "geometry-codec"

\* draco together with webp texture compression and a resize.
C3_Witness ==
    /\ bPc = "built"
    /\ bValues.geometryCompression = "draco"
    /\ bValues.textureCompression = "webp"
    /\ bValues.textureResize # "none"
    /\ Len(bCommands) >= 3

\* The all-disabled configuration, read off the form values.
AllDisabled(v) ==
    /\ ~v.dedup /\ ~v.instance /\ ~v.palette /\ ~v.flatten
    /\ ~v.join /\ ~v.weld /\ ~v.simplify /\ ~v.resample
    /\ ~v.prune /\ ~v.sparse
    /\ v.textureCompression = "none"
    /\ v.textureResize = "none"
    /\ v.geometryCompression = "none"

\* C4: the all-disabled configuration builds exactly the copy command, every
\* other configuration builds no copy command, and the list is never empty.
C4_CopyIffAllDisabled ==
    bPc = "built" =>
        /\ Len(bCommands) >= 1
        /\ AllDisabled(bValues) => (Len(bCommands) = 1 /\ bCommands[1].cmd = "copy")
        /\ ~AllDisabled(bValues) => \A k \in 1..Len(bCommands) : bCommands[k].cmd # "copy"

\* The all-disabled configuration has been built.
C4_Witness ==
    /\ bPc = "built"
    /\ AllDisabled(bValues)
    /\ Len(bCommands) = 1

\* C5: the first command reads the original file, every later command reads
\* the output of the command before it, and all commands write one output path.
C5_Chained ==
    bPc = "built" =>
        /\ Len(bCommands) >= 1
        /\ bCommands[1].input = bFilePath
        /\ \A k \in 2..Len(bCommands) : bCommands[k].input = bCommands[k - 1].output
        /\ \A k \in 1..Len(bCommands) : bCommands[k].output = bCommands[1].output

\* A chain of at least three commands whose output differs from the input file.
C5_Witness ==
    /\ bPc = "built"
    /\ Len(bCommands) >= 3
    /\ bCommands[2].input # bFilePath

(***************************************************************************)
(* Properties of the output naming (SpecName).                             *)
(***************************************************************************)
\* C6: the output path of a file that passes the filter is never the input path.
C6_OutputNeverInput ==
    nPc = "named" => nOutput # nPath

\* A file whose name already carries the mode's suffix has been named.
C6_Witness ==
    /\ nPc = "named"
    /\ nMode = "draco"
    /\ endsWith(nPath, Str_draco \o Str_glb)

\* The suffix each mode is specified to append.
SpecifiedSuffix(mode) ==
    CASE mode = "advanced" -> Str_optimized
      [] mode = "draco" -> Str_draco
      [] mode = "ktx" -> Str_ktx
      [] mode = "full" -> Str_compressed

\* The base name with the four characters of the matched extension removed.
WithoutExtension(name) == SubSeq(name, 1, Len(name) - 4)

\* The extension the filter matched, as written in the file name.
ExtensionOf(name) == SubSeq(name, Len(name) - 3, Len(name))

\* C8 as stated: the output is, in the input's directory, the base name without
\* its extension, then the mode suffix, then the extension (as written in the
\* input, or ".glb").
C8_OutputNameAsSpecified ==
    nPc = "named" =>
        \E ext \in {ExtensionOf(basename(nPath)), Str_glb} :
            nOutput = join(dirname(nPath),
                           WithoutExtension(basename(nPath)) \o SpecifiedSuffix(nMode) \o ext)

(***************************************************************************)
(* Properties of the batch runs (Spec).                                    *)
(***************************************************************************)
\* C7 as stated: no command that is run declares as its output one of the
\* files selected for the batch.
C7_NoSelectedFileOverwritten ==
    \A a \in 1..Len(log) :
        log[a].op = "start" =>
            \A k \in 1..Len(selectedItems) : log[a].command.output # selectedItems[k]

\* The loop over glbFiles has ended.
LoopEnded == pc \in {"hud", "popToRoot", "done"} /\ Len(glbFiles) > 0

\* A stat or a command of file f failed.
FileFailed(f) ==
    \E a \in 1..Len(log) :
        log[a].op \in {"stat", "exit"} /\ log[a].file = f /\ ~log[a].ok

\* File f was taken up: its original size was asked for.
FileAttempted(f) ==
    \E a \in 1..Len(log) :
        log[a].op = "stat" /\ log[a].file = f /\ log[a].path = glbFiles[f]

\* C9: the result list grows to exactly one entry per eligible file, entry k
\* is file k's, its success flag is false exactly when one of file k's own
\* operations failed, and every file is taken up whatever failed before it.
C9_OneResultPerFile ==
    /\ Len(results) <= Len(glbFiles)
    /\ \A k \in 1..Len(results) :
          /\ results[k].file = basename(glbFiles[k])
          /\ results[k].success = ~FileFailed(k)
    /\ LoopEnded =>
          /\ Len(results) = Len(glbFiles)
          /\ \A f \in 1..Len(glbFiles) : FileAttempted(f)

\* Three files, the first command of the second fails, the other two succeed.
C9_Witness ==
    /\ pc = "done"
    /\ Len(glbFiles) = 3 /\ Len(results) = 3
    /\ results[1].success /\ ~results[2].success /\ results[3].success
    /\ \E a \in 1..Len(log) : log[a] = EvExit(2, 1, FALSE)

\* C10: a file's commands are started in list order, each only after the one
\* before it exited successfully and with nothing in between; after a failed
\* command no command of that file is started, and the run goes on to record
\* the file's result and take up the next file.
C10_ChainStopsAtFirstFailure ==
    /\ \A a \in 1..Len(log) :
          log[a].op = "start" =>
              LET f == log[a].file
                  k == log[a].k
                  chain == chainOf(glbFiles[f])
              IN  /\ a > 1
                  /\ k \in 1..Len(chain)
                  /\ log[a].command = chain[k]
                  /\ log[a - 1] = IF k = 1 THEN EvStat(f, glbFiles[f], TRUE)
                                  ELSE EvExit(f, k - 1, TRUE)
                  /\ a < Len(log) =>
                        /\ log[a + 1].op = "exit"
                        /\ log[a + 1].file = f
                        /\ log[a + 1].k = k
    /\ \A a \in 1..Len(log) :
          (log[a].op = "exit" /\ ~log[a].ok) =>
              /\ \A b \in (a + 1)..Len(log) :
                    log[b].op = "start" => log[b].file > log[a].file
              /\ a + 1 <= Len(log) /\ log[a + 1] = EvResult(log[a].file)
              /\ log[a].file < Len(glbFiles) =>
                    a + 2 <= Len(log) /\ log[a + 2] = EvProgress(log[a].file + 1)

\* The second command of a three-command chain failed, its third command was
\* never started, and the next file's first command was.
C10_Witness ==
    /\ pc = "done"
    /\ entry = "advanced"
    /\ Len(commands) = 3
    /\ \E a \in 1..Len(log) : log[a] = EvExit(1, 2, FALSE)
    /\ \E a \in 1..Len(log) :
          log[a].op = "start" /\ log[a].file = 2 /\ log[a].k = 1


(***************************************************************************)
(* The summary after the loop, on every result list of 1..MaxResults       *)
(* results.                                                                *)
(***************************************************************************)
\* Sizes the results carry.
SummarySizes == {0, 50, 100, 200}
\* Names the callers of processGlbFiles pass.
ModeNames == {"Draco", "KTX2"}

PossibleResults ==
    {failureResult(Path_a_glb, m) : m \in ExecErrors}
        \cup {successResult(Path_a_glb, o, c) : o \in SummarySizes, c \in SummarySizes}

ResultLists == UNION {[1..n -> PossibleResults] : n \in 1..MaxResults}

InitSummary ==
    /\ sPc = "loopEnded"
    /\ sEntry \in Modes
    /\ sModeName \in ModeNames
    /\ sResults \in ResultLists
    /\ sOut = <<>>
    /\ BuildIdle
    /\ NameIdle
    /\ BatchIdle
    /\ FormatIdle
    /\ MessagesIdle
    /\ ViewIdle
    /\ InspectIdle

Summarise ==
    /\ sPc = "loopEnded"
    /\ sOut' = [hud |-> summaryHud(sResults),
                text |-> hudText(sEntry, sModeName, summaryHud(sResults))]
    /\ sPc' = "shown"
    /\ UNCHANGED <<sEntry, sModeName, sResults, buildVars, nameVars, batchVars,
                   formatVars, messageVars, viewVars, inspectVars>>

NextSummary == Summarise

SpecSummary == InitSummary /\ [][NextSummary]_vars

(***************************************************************************)
(* The notifications of the runs that end without a success: the selection *)
(* rejected, the selection empty, no .glb file selected, every file        *)
(* failed.                                                                 *)
(***************************************************************************)
\* Messages the selection may reject with: those of SelectionErrors, the
\* empty message and the wording of the other notifications.
ThrownMessages ==
    SelectionErrors \cup
    { <<>>,
      <<"No", "files", "selected", "in", "Finder">>,
      <<"No", "GLB", "files", "selected">>,
      <<"Select", "files", "in", "Finder", "first">>,
      <<"Failed", "to", "optimize", "1", "file">>,
      <<"Failed", "to", "compress", "2", "files">> }

InitMessages ==
    /\ mPc = "ended"
    /\ mEntry \in Modes
    /\ mThrown \in ThrownMessages
    /\ mFailed \in 1..MaxResults
    /\ mOut = <<>>
    /\ BuildIdle
    /\ NameIdle
    /\ BatchIdle
    /\ FormatIdle
    /\ SummaryIdle
    /\ ViewIdle
    /\ InspectIdle

Notify ==
    /\ mPc = "ended"
    /\ \E modeName \in ModeNames :
          mOut' =
             [thrown |-> hudText(mEntry, modeName, thrownHud(mThrown)),
              empty |-> hudText(mEntry, modeName, [kind |-> "noSelection"]),
              noGlb |-> hudText(mEntry, modeName, [kind |-> "noGlbFiles"]),
              allFailed |->
                 hudText(mEntry, modeName,
                         summaryHud([n \in 1..mFailed |->
                                        failureResult(Path_a_glb, "Command failed")]))]
    /\ mPc' = "shown"
    /\ UNCHANGED <<mEntry, mThrown, mFailed, buildVars, nameVars, batchVars,
                   formatVars, summaryVars, viewVars, inspectVars>>

NextMessages == Notify

SpecMessages == InitMessages /\ [][NextMessages]_vars

(***************************************************************************)
(* The inspection view (glb-inspect.tsx) once the reports are loaded:      *)
(* navigation between the reports.                                         *)
(***************************************************************************)
\* The remainder a % n of the program: it has the sign of a.
remainder(a, n) == IF a >= 0 THEN a % n ELSE 0 - ((0 - a) % n)

\* (i + 1) % results.length
nextIndex(idx, n) == remainder(idx + 1, n)

\* A step back that is not brought into range before the remainder.
previousIndex_NoWrap(idx, n) == remainder(idx - 1, n)

\* (i - 1 + results.length) % results.length
previousIndex(idx, n) == remainder(idx - 1 + n, n)

\* An InspectionResult: a report or an error.
Reports == { [file |-> "a.glb", markdown |-> "report", error |-> "null"],
             [file |-> "a.glb", markdown |-> "null", error |-> "Failed to inspect file"] }

ReportLists == UNION {[1..n -> Reports] : n \in 1..MaxReports}

\* setResults(inspectionResults); setSelectedFileIndex(0); setIsLoading(false)
InitView ==
    /\ vResults \in ReportLists
    /\ selectedFileIndex = 0
    /\ vNav = <<>>
    /\ BuildIdle
    /\ NameIdle
    /\ BatchIdle
    /\ FormatIdle
    /\ SummaryIdle
    /\ MessagesIdle
    /\ InspectIdle

\* const currentResult = results[selectedFileIndex]
currentResult == vResults[selectedFileIndex + 1]

\* The error view always offers the two actions, the report view only when
\* there is more than one report.
CanNavigate ==
    /\ selectedFileIndex + 1 \in DOMAIN vResults
    /\ currentResult.error # "null" \/ Len(vResults) > 1

NextFile ==
    /\ CanNavigate
    /\ Len(vNav) < MaxNav
    /\ selectedFileIndex' = nextIndex(selectedFileIndex, Len(vResults))
    /\ vNav' = Append(vNav, [action |-> "next", from |-> selectedFileIndex])
    /\ UNCHANGED <<vResults, buildVars, nameVars, batchVars, formatVars, summaryVars,
                   messageVars, inspectVars>>

PreviousFile ==
    /\ CanNavigate
    /\ Len(vNav) < MaxNav
    /\ selectedFileIndex' = previousIndex(selectedFileIndex, Len(vResults))
    /\ vNav' = Append(vNav, [action |-> "previous", from |-> selectedFileIndex])
    /\ UNCHANGED <<vResults, buildVars, nameVars, batchVars, formatVars, summaryVars,
                   messageVars, inspectVars>>

NextView == NextFile \/ PreviousFile

SpecView == InitView /\ [][NextView]_vars

(***************************************************************************)
(* The inspection view while it loads: runInspection, from the Finder       *)
(* selection to the published reports.                                     *)
(***************************************************************************)
\* The value null of an InspectionResult field.
NULL == "null"

\* What the inspect command prints, and the messages it fails with.
Stdouts == {"# Overview", ""}
InspectErrors == {"Command failed", ""}

\* `gltf-transform inspect "${filePath}" --format md`
inspectCommand(filePath) == [tool |-> "inspect", input |-> filePath, format |-> "md"]

\* inspectGlb's two returns.
inspected(filePath, stdout) ==
    [file |-> basename(filePath), markdown |-> stdout, error |-> NULL]
inspectFailed(filePath, message) ==
    [file |-> basename(filePath), markdown |-> NULL,
     error |-> "Failed to inspect file:\n\n" \o message]

\* selectedItems.filter((item) => item.path.toLowerCase().endsWith(".glb"))
inspectFilter(items) == SelectSeq(items, IsGlbFile)

\* History events of the inspection.
IvStart(f, command) == [op |-> "start", file |-> f, command |-> command]
IvExit(f, ok, text) == [op |-> "exit", file |-> f, ok |-> ok, text |-> text]
IvPublish(list) == [op |-> "publish", results |-> list]
IvHud(text) == [op |-> "hud", text |-> text]
IvToast(text) == [op |-> "toast", text |-> text]
IvPop == [op |-> "popToRoot"]

\* The reports in the order in which the inspections completed.
allResults_CompletionOrder(files, settled, history) ==
    LET exits == SelectSeq(history, LAMBDA ev : ev.op = "exit")
    IN  [n \in 1..Len(exits) |-> settled[exits[n].file]]

\* await Promise.all(inspectionPromises): the results in the order of the
\* promises, which is the order of glbFiles.
allResults(files, settled, history) == [n \in 1..Len(files) |-> settled[n]]

\* The document the view renders: the loading fallback, the error document
\* or the report.
document(loading, list, idx) ==
    IF loading \/ idx + 1 \notin DOMAIN list THEN [kind |-> "loading"]
    ELSE LET shown == list[idx + 1]
         IN  IF shown.error # NULL /\ shown.error # ""
             THEN [kind |-> "error", heading |-> <<"Inspection Failed:", shown.file>>,
                   body |-> shown.error]
             ELSE [kind |-> "report", heading |-> <<"GLB Analysis:", shown.file>>,
                   body |-> shown.markdown]

\* useState(true), useState([]), useState(0); the effect runs runInspection,
\* which suspends in getSelectedFinderItems.
InitInspect ==
    /\ iPc = "getSelection"
    /\ iLoading = TRUE
    /\ iGlb = <<>>
    /\ iPending = {}
    /\ iSettled = <<>>
    /\ iLog = <<>>
    /\ vResults = <<>> /\ selectedFileIndex = 0 /\ vNav = <<>>
    /\ BuildIdle
    /\ NameIdle
    /\ BatchIdle
    /\ FormatIdle
    /\ SummaryIdle
    /\ MessagesIdle

\* getSelectedFinderItems resolves: the two early exits, or the toast.
InspectSelectionReturns ==
    /\ iPc = "getSelection"
    /\ \E sel \in Selections :
          IF Len(sel) = 0
          THEN /\ iLog' = Append(iLog, IvHud(<<"No", "files", "selected", "in", "Finder">>))
               /\ iPc' = "hud"
               /\ UNCHANGED iGlb
          ELSE IF Len(inspectFilter(sel)) = 0
          THEN /\ iLog' = Append(iLog, IvHud(<<"No", "GLB", "files", "selected">>))
               /\ iPc' = "hud"
               /\ UNCHANGED iGlb
          ELSE /\ iGlb' = inspectFilter(sel)
               /\ iLog' = Append(iLog, IvToast(<<"Inspecting", "GLB", "files...">>))
               /\ iPc' = "toast"
    /\ UNCHANGED <<iLoading, iPending, iSettled, viewVars, buildVars, nameVars,
                   batchVars, formatVars, summaryVars, messageVars>>

\* getSelectedFinderItems rejects: the catch shows the failure toast.
InspectSelectionThrows ==
    /\ iPc = "getSelection"
    /\ \E message \in SelectionErrors :
          iLog' = Append(iLog, IvToast(IF includes(message, "Finder")
                                       THEN <<"Select", "files", "in", "Finder", "first">>
                                       ELSE <<"Error:">> \o message))
    /\ iPc' = "hud"
    /\ UNCHANGED <<iLoading, iGlb, iPending, iSettled, viewVars, buildVars, nameVars,
                   batchVars, formatVars, summaryVars, messageVars>>

\* showHUD, or the failure toast, resolves: popToRoot is called.
InspectHudShown ==
    /\ iPc = "hud"
    /\ iLog' = Append(iLog, IvPop)
    /\ iPc' = "popToRoot"
    /\ UNCHANGED <<iLoading, iGlb, iPending, iSettled, viewVars, buildVars, nameVars,
                   batchVars, formatVars, summaryVars, messageVars>>

\* popToRoot resolves: finally, setIsLoading(false).
InspectPopped ==
    /\ iPc = "popToRoot"
    /\ iLoading' = FALSE
    /\ iPc' = "done"
    /\ UNCHANGED <<iGlb, iPending, iSettled, iLog, viewVars, buildVars, nameVars,
                   batchVars, formatVars, summaryVars, messageVars>>

RECURSIVE startAll(_, _, _)
startAll(history, files, n) ==
    IF n > Len(files) THEN history
    ELSE startAll(Append(history, IvStart(n, inspectCommand(files[n]))), files, n + 1)

\* showToast resolves: glbFiles.map(inspectGlb) calls inspectGlb for every
\* file, each call running up to its await of execAsync; then the run
\* suspends in Promise.all.
InspectAllStarted ==
    /\ iPc = "toast"
    /\ iLog' = startAll(iLog, iGlb, 1)
    /\ iPending' = DOMAIN iGlb
    /\ iSettled' = [n \in DOMAIN iGlb |-> NULL]
    /\ iPc' = "awaitAll"
    /\ UNCHANGED <<iLoading, iGlb, viewVars, buildVars, nameVars, batchVars,
                   formatVars, summaryVars, messageVars>>

\* One execAsync resolves: its inspectGlb returns the report.
InspectionSucceeds ==
    /\ iPc = "awaitAll"
    /\ \E f \in iPending, stdout \in Stdouts :
          /\ iSettled' = [iSettled EXCEPT ![f] = inspected(iGlb[f], stdout)]
          /\ iLog' = Append(iLog, IvExit(f, TRUE, stdout))
          /\ iPending' = iPending \ {f}
    /\ UNCHANGED <<iPc, iLoading, iGlb, viewVars, buildVars, nameVars, batchVars,
                   formatVars, summaryVars, messageVars>>

\* A failed inspection rejects Promise.all: the run ends in the catch.
InspectionFails_RejectsAll ==
    /\ iPc = "awaitAll"
    /\ \E f \in iPending, message \in InspectErrors :
          iLog' = Append(Append(iLog, IvExit(f, FALSE, message)),
                         IvToast(<<"Error:", message>>))
    /\ iPc' = "hud"
    /\ UNCHANGED <<iLoading, iGlb, iPending, iSettled, viewVars, buildVars, nameVars, batchVars,
                   formatVars, summaryVars, messageVars>>

\* One execAsync rejects: its inspectGlb catches and returns the error.
InspectionFails ==
    /\ iPc = "awaitAll"
    /\ \E f \in iPending, message \in InspectErrors :
          /\ iSettled' = [iSettled EXCEPT ![f] = inspectFailed(iGlb[f], message)]
          /\ iLog' = Append(iLog, IvExit(f, FALSE, message))
          /\ iPending' = iPending \ {f}
    /\ UNCHANGED <<iPc, iLoading, iGlb, viewVars, buildVars, nameVars, batchVars,
                   formatVars, summaryVars, messageVars>>

\* Promise.all resolves once every inspectGlb has returned:
\* setResults(inspectionResults), setSelectedFileIndex(0), the toast turns to
\* success, finally setIsLoading(false).
PublishResults ==
    /\ iPc = "awaitAll"
    /\ iPending = {}
    /\ vResults' = allResults(iGlb, iSettled, iLog)
    /\ selectedFileIndex' = 0
    /\ iLog' = Append(iLog, IvPublish(allResults(iGlb, iSettled, iLog)))
    /\ iLoading' = FALSE
    /\ iPc' = "done"
    /\ UNCHANGED <<iGlb, iPending, iSettled, vNav, buildVars, nameVars, batchVars,
                   formatVars, summaryVars, messageVars>>

NextInspect ==
    \/ InspectSelectionReturns
    \/ InspectSelectionThrows
    \/ InspectHudShown
    \/ InspectPopped
    \/ InspectAllStarted
    \/ InspectionSucceeds
    \/ InspectionFails
    \/ PublishResults

SpecInspect == InitInspect /\ [][NextInspect]_vars

(***************************************************************************)
(* formatBytes (C18, C19).                                                 *)
(***************************************************************************)
Bytes_1536 == <<512, 1>>
Bytes_1GiB == <<0, 0, 0, 1>>

\* The formatted value is within half a hundredth of bytes / 1024^index; the
\* digits below the two leading ones weigh less than 100 / 1024 hundredths.
RoundedToHundredths ==
    LET n == Len(fBytes)
        lower == 100 * KILO * fBytes[n] + (IF n > 1 THEN 100 * fBytes[n - 1] ELSE 0)
    IN  /\ KILO * fOut.hundredths >= lower - KILO \div 2
        /\ KILO * fOut.hundredths <= lower + 100 + KILO \div 2

\* C18 as stated: formatBytes gives "0 Bytes" for 0, "1.5 KB" for 1536 and
\* "1.00 GB" for 1073741824, and shows every non-zero value with two decimal
\* places.
C18_TwoDecimalPlaces ==
    fPc = "formatted" =>
        /\ fBytes = <<>> => fOut.text = <<"0", "Bytes">>
        /\ fBytes = Bytes_1536 => fOut.text = <<"1.5", "KB">>
        /\ fBytes = Bytes_1GiB => fOut.text = <<"1.00", "GB">>

\* C18 (amended): formatBytes gives "0 Bytes" for 0, "1.5 KB" for 1536 and
\* "1 GB" for 1073741824; a non-zero value below 1024^4 is scaled to the
\* largest unit of Bytes, KB, MB, GB not above it, rounded to two decimal
\* places and shown without trailing zeros.
C18_AtMostTwoDecimalPlaces ==
    fPc = "formatted" =>
        /\ fBytes = <<>> => fOut.text = <<"0", "Bytes">>
        /\ fBytes = Bytes_1536 => fOut.text = <<"1.5", "KB">>
        /\ fBytes = Bytes_1GiB => fOut.text = <<"1", "GB">>
        /\ (fBytes # <<>> /\ Len(fBytes) <= Len(sizes)) =>
              /\ fOut.text[2] = sizes[Len(fBytes)]
              /\ RoundedToHundredths
              /\ LET whole == ToString(fOut.hundredths \div 100)
                     cents == fOut.hundredths % 100
                 IN  fOut.text[1] =
                        IF cents = 0 THEN whole
                        ELSE IF cents % 10 = 0
                        THEN whole \o "." \o ToString(cents \div 10)
                        ELSE whole \o "." \o (IF cents < 10 THEN "0" ELSE "")
                                 \o ToString(cents)

\* A gibibyte has been formatted: a whole number of the unit, where the two
\* readings of "two decimal places" differ.
C18_Witness ==
    /\ fPc = "formatted"
    /\ fBytes = Bytes_1GiB
    /\ fOut.text = <<"1", "GB">>

\* C19: for every byte count of at least 1 the unit index formatBytes
\* computes lies in 0..3, so the unit is one of Bytes, KB, MB, GB.
C19_UnitIndexInTable ==
    (fPc = "formatted" /\ fBytes # <<>>) =>
        /\ fOut.index \in 0..(Len(sizes) - 1)
        /\ fOut.text[2] \in {sizes[n] : n \in DOMAIN sizes}


(***************************************************************************)
(* The terminal notification of a run (C12, C14).                          *)
(***************************************************************************)
Ended == pc \in {"hud", "hudEarly", "popToRoot", "done"}

\* C12: a run that has ended has emitted exactly one notification, on every
\* path; the notification is the last call of the run, so no command runs
\* after it, and when files were processed it comes right after the result of
\* the last file was recorded.
C12_OneTerminalHud ==
    /\ \A n \in DOMAIN log : log[n].op = "hud" => n = Len(log)
    /\ Ended =>
          /\ log # <<>>
          /\ log[Len(log)].op = "hud"
          /\ log[1].op = "progress" =>
                /\ Len(results) = Len(glbFiles)
                /\ log[Len(log) - 1] = EvResult(Len(glbFiles))

\* A run over two files has ended with its notification.
C12_Witness ==
    /\ pc = "done"
    /\ Len(results) = 2
    /\ log[Len(log)].op = "hud"
    /\ log[Len(log) - 1] = EvResult(2)

\* The path ends in ".glb", in any mix of upper and lower case.
EndsInGlb(p) ==
    /\ Len(p) >= 4
    /\ p[Len(p) - 3] = "."
    /\ p[Len(p) - 2] \in {"g", "G"}
    /\ p[Len(p) - 1] \in {"l", "L"}
    /\ p[Len(p)] \in {"b", "B"}

\* C14: when the selection is empty, cannot be retrieved or holds no path
\* ending in .glb, the run ends with a notification: nothing else is called,
\* no command is run and no file size is read.
C14_NothingRunWithoutGlbFiles ==
    (/\ pc \notin {"idle", "getSelection"}
     /\ \A n \in DOMAIN selectedItems : ~EndsInGlb(selectedItems[n]))
        => /\ Len(log) = 1
           /\ log[1].op = "hud"
           /\ log[1].hud.kind \in {"noSelection", "noGlbFiles", "selectInFinder", "error"}
           /\ results = <<>>

\* A selection without a .glb file has ended in the notification alone.
C14_Witness ==
    /\ pc = "done"
    /\ selectedItems # <<>>
    /\ \A n \in DOMAIN selectedItems : ~EndsInGlb(selectedItems[n])
    /\ log = <<EvHud([kind |-> "noGlbFiles"])>>

(***************************************************************************)
(* One command at a time (C20).                                            *)
(***************************************************************************)
\* C20: at most one command is in flight: a started command is the last call
\* of the run so far, or its exit is the next call; a command after the first
\* of its file starts right after the one before it exited, and the first
\* command of a later file starts after the result of the file before was
\* appended.
C20_OneCommandAtATime ==
    \A n \in DOMAIN log :
        /\ log[n].op = "start" =>
              /\ IF n = Len(log) THEN pc = "running"
                 ELSE log[n + 1].op = "exit" /\ log[n + 1].file = log[n].file
                         /\ log[n + 1].k = log[n].k
              /\ log[n].k > 1 => log[n - 1] = EvExit(log[n].file, log[n].k - 1, TRUE)
              /\ (log[n].k = 1 /\ log[n].file > 1) =>
                    /\ Len(results) >= log[n].file - 1
                    /\ \E m \in 1..(n - 1) : log[m] = EvResult(log[n].file - 1)
        /\ log[n].op = "exit" =>
              log[n - 1].op = "start" /\ log[n - 1].file = log[n].file
                 /\ log[n - 1].k = log[n].k

\* A run has ended in which a file had a chain of two commands and in which
\* a second file was started.
C20_Witness ==
    /\ pc = "done"
    /\ \E n \in DOMAIN log : log[n].op = "start" /\ log[n].k = 2
    /\ \E n \in DOMAIN log : log[n].op = "start" /\ log[n].k = 1 /\ log[n].file = 2

(***************************************************************************)
(* The summary notification (C11, C13, C17).                               *)
(***************************************************************************)
AllSucceeded == \A n \in DOMAIN sResults : sResults[n].success
NoneSucceeded == \A n \in DOMAIN sResults : ~sResults[n].success
Succeeded == {n \in DOMAIN sResults : sResults[n].success}
Contains(text, word) == \E n \in DOMAIN text : text[n] = word

\* C11: for every non-empty result list the summary shown is the
\* all-succeeded one iff every result succeeded, the all-failed one iff none
\* did, and the mixed one otherwise; exactly one of the three is shown.
C11_SummaryClassification ==
    sPc = "shown" =>
        /\ sOut.hud.kind \in {"allSucceeded", "allFailed", "mixed"}
        /\ sOut.hud.kind = "allSucceeded" <=> AllSucceeded
        /\ sOut.hud.kind = "allFailed" <=> NoneSucceeded
        /\ sOut.hud.kind = "mixed" <=> (~AllSucceeded /\ ~NoneSucceeded)
        /\ sOut.text[1] = CHECKMARK <=> AllSucceeded
        /\ sOut.text[1] = CROSS <=> NoneSucceeded
        /\ sOut.text[1] = WARNING <=> (~AllSucceeded /\ ~NoneSucceeded)

\* A list with a success and a failure has been summarised as mixed.
C11_Witness ==
    /\ sPc = "shown"
    /\ Len(sResults) = 2
    /\ sResults[1].success /\ ~sResults[2].success
    /\ sOut.hud.kind = "mixed"

RECURSIVE SumOver(_, _, _)
SumOver(list, fld, n) == IF n = 0 THEN 0 ELSE list[n][fld] + SumOver(list, fld, n - 1)
SumOriginal == SumOver(sResults, "originalSize", Len(sResults))
SumCompressed == SumOver(sResults, "compressedSize", Len(sResults))
Abs(n) == IF n < 0 THEN 0 - n ELSE n

\* The words formatBytes gives for n bytes are in the text, side by side.
ShowsBytes(text, n) ==
    \E m \in 1..(Len(text) - 1) :
        <<text[m], text[m + 1]>> = formatBytes(Num(n)).text
\* Some word of the text is a unit of formatBytes or a percentage.
ShowsSavings(text) ==
    \E m \in DOMAIN text :
        \/ text[m] \in {sizes[n] : n \in DOMAIN sizes} \cup {"undefined"}
        \/ \E n \in DOMAIN text : text[m] = "(" \o text[n] \o "%)"
        \/ text[m] = "Saved"

\* C13 as stated: whenever at least one file succeeded, the notification
\* holds the success and failure counts, the formatted bytes saved and the
\* percentage saved.
C13_SavingsWheneverAnySucceeded ==
    (sPc = "shown" /\ Succeeded # {}) =>
        /\ Contains(sOut.text, ToString(Cardinality(Succeeded)))
        /\ Succeeded # DOMAIN sResults =>
              Contains(sOut.text, ToString(Len(sResults) - Cardinality(Succeeded)))
        /\ ShowsBytes(sOut.text,
                      total(SelectSeq(sResults, IsSuccess), "originalSize")
                          - total(SelectSeq(sResults, IsSuccess), "compressedSize"))
        /\ \E n \in DOMAIN sOut.text :
              sOut.text[n]
                 = "(" \o percentText(
                             total(SelectSeq(sResults, IsSuccess), "originalSize")
                                - total(SelectSeq(sResults, IsSuccess), "compressedSize"),
                             total(SelectSeq(sResults, IsSuccess), "originalSize")) \o "%)"

\* C13 (amended): when every file succeeded the notification holds the number
\* of files, the text formatBytes gives for the bytes saved and the
\* percentage saved; when some succeeded and some failed it holds the two
\* counts and neither bytes saved nor a percentage.
C13_SavingsOnlyWhenAllSucceeded ==
    sPc = "shown" =>
        /\ AllSucceeded =>
              /\ Contains(sOut.text, ToString(Len(sResults)))
              /\ Contains(sOut.text, "Saved")
              /\ ShowsBytes(sOut.text, SumOriginal - SumCompressed)
              /\ sOut.text[Len(sOut.text)]
                    = "(" \o percentText(SumOriginal - SumCompressed, SumOriginal) \o "%)"
        /\ (~AllSucceeded /\ ~NoneSucceeded) =>
              /\ Len(sOut.text) = 5
              /\ sOut.text[2] = ToString(Cardinality(Succeeded))
              /\ sOut.text[4] = ToString(Len(sResults) - Cardinality(Succeeded))
              /\ ~ShowsSavings(sOut.text)

\* Both files succeeded, saving 150 of 300 bytes.
C13_Witness ==
    /\ sPc = "shown"
    /\ Len(sResults) = 2
    /\ AllSucceeded
    /\ SumOriginal = 300 /\ SumCompressed = 150
    /\ ShowsBytes(sOut.text, 150)

\* The text of a number of tenths.
OneDecimal(tenths) == ToString(tenths \div 10) \o "." \o ToString(tenths % 10)

\* C17: in the all-succeeded summary the percentage shown is
\* 100 * (sum of originalSize - sum of compressedSize) / (sum of originalSize)
\* over all results, with one decimal: the nearest tenth, with the sign of the
\* quotient; for original sizes 100, 200 and compressed sizes 50, 100 it is
\* 50.0.  The quotient of a zero sum of original sizes is not a number.
C17_PercentSaved ==
    (sPc = "shown" /\ AllSucceeded) =>
        LET shown == sOut.text[Len(sOut.text)]
            saved == SumOriginal - SumCompressed
            low == (1000 * Abs(saved)) \div (IF SumOriginal = 0 THEN 1 ELSE SumOriginal)
        IN  /\ SumOriginal > 0 =>
                 \E tenths \in {low, low + 1} :
                    /\ 2 * Abs(SumOriginal * tenths - 1000 * Abs(saved)) <= SumOriginal
                    /\ shown = "(" \o (IF saved < 0 THEN "-" ELSE "") \o OneDecimal(tenths)
                                   \o "%)"
            /\ SumOriginal = 0 => shown \in {"(NaN%)", "(-Infinity%)"}
            /\ (/\ Len(sResults) = 2
                /\ sResults[1].originalSize = 100 /\ sResults[2].originalSize = 200
                /\ sResults[1].compressedSize = 50 /\ sResults[2].compressedSize = 100)
                 => shown = "(50.0%)"

\* The sizes of the example have been summarised.
C17_Witness ==
    /\ sPc = "shown"
    /\ Len(sResults) = 2
    /\ AllSucceeded
    /\ sResults[1].originalSize = 100 /\ sResults[2].originalSize = 200
    /\ sResults[1].compressedSize = 50 /\ sResults[2].compressedSize = 100
    /\ sOut.text[Len(sOut.text)] = "(50.0%)"


(***************************************************************************)
(* Failure notifications (C15).                                            *)
(***************************************************************************)
\* C15: the notifications for a rejected selection, an empty selection, a
\* selection without a .glb file and a batch in which every file failed are
\* pairwise different, whatever message the selection rejects with.
C15_FailureMessagesDiffer ==
    mPc = "shown" =>
        /\ mOut.thrown # mOut.empty
        /\ mOut.thrown # mOut.noGlb
        /\ mOut.thrown # mOut.allFailed
        /\ mOut.empty # mOut.noGlb
        /\ mOut.empty # mOut.allFailed
        /\ mOut.noGlb # mOut.allFailed

\* The selection rejected with the very words of the empty-selection
\* notification, and the four notifications have been composed.
C15_Witness ==
    /\ mPc = "shown"
    /\ mThrown = <<"No", "files", "selected", "in", "Finder">>
    /\ mOut.empty = <<CROSS>> \o mThrown
    /\ mOut.thrown # mOut.empty


(***************************************************************************)
(* Navigation in the inspection view (C16).                                *)
(***************************************************************************)
\* The last n navigation actions were all of the given kind.
LastWere(kind, n) ==
    /\ Len(vNav) >= n
    /\ \A m \in (Len(vNav) - n + 1)..Len(vNav) : vNav[m].action = kind

\* C16: with N >= 1 reports the selected index stays in 0..N-1 after any
\* sequence of next and previous actions; N times next, and N times previous,
\* lead back to the index they started from, and previous undoes next.
C16_CyclicNavigation ==
    vResults # <<>> =>
        LET N == Len(vResults)
        IN  /\ selectedFileIndex \in 0..(N - 1)
            /\ LastWere("next", N) => selectedFileIndex = vNav[Len(vNav) - N + 1].from
            /\ LastWere("previous", N) =>
                  selectedFileIndex = vNav[Len(vNav) - N + 1].from
            /\ (/\ Len(vNav) >= 2
                /\ vNav[Len(vNav) - 1].action = "next"
                /\ vNav[Len(vNav)].action = "previous")
                  => selectedFileIndex = vNav[Len(vNav) - 1].from

\* Three reports, and previous has been taken three times from the first
\* one: the index wrapped round from 0 to 2 and came back.
C16_Witness ==
    /\ Len(vResults) = 3
    /\ LastWere("previous", 3)
    /\ vNav[Len(vNav) - 2].from = 0
    /\ vNav[Len(vNav) - 1].from = 2
    /\ selectedFileIndex = 0


(***************************************************************************)
(* Progress updates (C21).                                                 *)
(***************************************************************************)
ProgressEvents == {n \in DOMAIN log : log[n].op = "progress"}

\* C21: for N eligible files exactly N progress updates are written, with the
\* indices 1, 2, ..., N in this order and the name of the file about to be
\* processed; update i is written while no command is in flight (first of
\* all, or right after the result of file i-1) and before any command of
\* file i: the read of file i's size, which precedes its commands, follows it.
C21_ProgressPerFile ==
    LET written == Cardinality(ProgressEvents)
    IN  /\ written <= Len(glbFiles)
        /\ LoopEnded => written = Len(glbFiles)
        /\ \A n \in ProgressEvents :
              /\ log[n].file \in 1..written
              /\ IF log[n].file = 1 THEN n = 1
                 ELSE log[n - 1] = EvResult(log[n].file - 1)
              /\ n < Len(log) =>
                    /\ log[n + 1].op = "stat"
                    /\ log[n + 1].file = log[n].file
                    /\ log[n + 1].path = glbFiles[log[n].file]
        /\ \A n \in DOMAIN log :
              log[n].op = "start" => log[n].file <= written
        /\ written > 0 =>
              /\ toast.index = written
              /\ toast.of = Len(glbFiles)
              /\ toast.name = basename(glbFiles[written])

\* A run over three files has ended after three updates, the last one naming
\* the third file.
C21_Witness ==
    /\ pc = "done"
    /\ Len(glbFiles) = 3
    /\ Cardinality(ProgressEvents) = 3
    /\ toast.index = 3
    /\ toast.name = basename(glbFiles[3])
    /\ toast.name # basename(glbFiles[1])


(***************************************************************************)
(* Loading the inspection view (C22, C23).                                 *)
(***************************************************************************)
StartEvents == {n \in DOMAIN iLog : iLog[n].op = "start"}
ExitEvents == {n \in DOMAIN iLog : iLog[n].op = "exit"}
Published == \E n \in DOMAIN iLog : iLog[n].op = "publish"

\* C22: the inspections of all eligible files are started before any of them
\* is waited for, the report list is published only after every inspection
\* has completed, and whatever the order of completion the published list
\* has one entry per eligible file in selection order, with the selected
\* index 0.
C22_AllStartedThenPublishedInOrder ==
    /\ \A a \in StartEvents : \A b \in ExitEvents : a < b
    /\ ExitEvents # {} =>
          /\ Cardinality(StartEvents) = Len(iGlb)
          /\ \A a \in StartEvents :
                iLog[a].command = inspectCommand(iGlb[iLog[a].file])
          /\ \A f \in DOMAIN iGlb : \E a \in StartEvents : iLog[a].file = f
    /\ ~Published => vResults = <<>>
    /\ Published =>
          /\ iLog[Len(iLog)].op = "publish"
          /\ Cardinality(ExitEvents) = Len(iGlb)
          /\ Len(vResults) = Len(iGlb)
          /\ selectedFileIndex = 0
          /\ \A f \in DOMAIN iGlb :
                /\ vResults[f].file = basename(iGlb[f])
                /\ \E b \in ExitEvents :
                      /\ iLog[b].file = f
                      /\ IF iLog[b].ok
                         THEN vResults[f].markdown = iLog[b].text
                                 /\ vResults[f].error = NULL
                         ELSE vResults[f].markdown = NULL /\ vResults[f].error # NULL

\* Three files, the last one completing first and the first one last, are
\* published in selection order.
C22_Witness ==
    /\ Published
    /\ Len(iGlb) = 3
    /\ \E a, b, c \in ExitEvents :
          /\ a < b /\ b < c
          /\ iLog[a].file = 3 /\ iLog[b].file = 2 /\ iLog[c].file = 1
          /\ iLog[a].ok /\ ~iLog[b].ok /\ iLog[c].ok
    /\ vResults[1].file = basename(iGlb[1])
    /\ vResults[2].error # NULL
    /\ vResults[3].markdown # NULL

\* C23: inspectGlb never fails towards its caller: every completed inspection
\* has yielded a result with the file's name in which exactly one of markdown
\* and error is non-null, markdown being the tool's output and error carrying
\* the failure message; a failing inspection is followed by the other
\* completions and the publication, never by the failure path, every file has
\* its entry in the published list, and a failed entry is displayed as an
\* error document naming the file.
C23_InspectGlbNeverRejects ==
    /\ \A b \in ExitEvents :
          LET f == iLog[b].file
          IN  /\ f \notin iPending
              /\ iSettled[f].file = basename(iGlb[f])
              /\ (iSettled[f].markdown = NULL) # (iSettled[f].error = NULL)
              /\ iLog[b].ok =>
                    iSettled[f].markdown = iLog[b].text /\ iSettled[f].error = NULL
              /\ ~iLog[b].ok =>
                    /\ iSettled[f].markdown = NULL
                    /\ iSettled[f].error = "Failed to inspect file:\n\n" \o iLog[b].text
              /\ b < Len(iLog) => iLog[b + 1].op \in {"exit", "publish"}
    /\ (iPc = "done" /\ iGlb # <<>>) =>
          /\ Published
          /\ Len(vResults) = Len(iGlb)
          /\ \A f \in DOMAIN iGlb :
                /\ vResults[f] = iSettled[f]
                /\ vResults[f].error # NULL =>
                      /\ document(iLoading, vResults, f - 1).kind = "error"
                      /\ document(iLoading, vResults, f - 1).heading[2]
                            = basename(iGlb[f])
                      /\ document(iLoading, vResults, f - 1).body = vResults[f].error
                /\ vResults[f].error = NULL =>
                      /\ document(iLoading, vResults, f - 1).kind = "report"
                      /\ document(iLoading, vResults, f - 1).body = vResults[f].markdown

\* The first of two inspections failed with an empty message, the second
\* succeeded, and both entries are published.
C23_Witness ==
    /\ iPc = "done"
    /\ Len(iGlb) = 2
    /\ Len(vResults) = 2
    /\ vResults[1].error = "Failed to inspect file:\n\n"
    /\ vResults[2].markdown = "# Overview"
    /\ document(iLoading, vResults, 0).kind = "error"


(***************************************************************************)
(* The results of the files (C24).                                         *)
(***************************************************************************)
\* The size reads and command exits of file f.
FileEvents(f) ==
    {n \in DOMAIN log : log[n].op \in {"stat", "exit"} /\ log[n].file = f}

\* C24: the result of a file says success exactly when the read of its
\* original size, every command of its chain and the read of its output size
\* all succeeded; a success carries the two sizes and no error, a failure
\* carries the message of the one operation that failed and no sizes; every
\* processed file has exactly one result.
C24_ResultMatchesOperations ==
    \A f \in 1..Len(results) :
        LET events == FileEvents(f)
            failures == {n \in events : ~log[n].ok}
            sizeReads == {n \in events : log[n].op = "stat" /\ log[n].ok}
            exits == {n \in events : log[n].op = "exit" /\ log[n].ok}
        IN  /\ results[f].success <=>
                  /\ Cardinality(sizeReads) = 2
                  /\ Cardinality(exits) = Len(chainOf(glbFiles[f]))
            /\ results[f].success =>
                  /\ DOMAIN results[f]
                        = {"file", "success", "originalSize", "compressedSize"}
                  /\ results[f].originalSize \in Nat
                  /\ results[f].compressedSize \in Nat
            /\ ~results[f].success =>
                  /\ DOMAIN results[f] = {"file", "success", "error"}
                  /\ Cardinality(failures) = 1
                  /\ \A n \in failures :
                        /\ results[f].error
                              \in (IF log[n].op = "stat" THEN StatErrors ELSE ExecErrors)
                        /\ \A m \in events : m <= n
            /\ Cardinality({n \in DOMAIN log : log[n] = EvResult(f)}) = 1

\* Three results: the first file's output size could not be read, the second
\* file's original size could not be read, the third file succeeded.
C24_Witness ==
    /\ pc = "done"
    /\ Len(results) = 3
    /\ ~results[1].success /\ results[1].error \in StatErrors
    /\ \E n \in FileEvents(1) : log[n].op = "exit" /\ log[n].ok
    /\ ~results[2].success
    /\ FileEvents(2) = {n \in DOMAIN log : log[n] = EvStat(2, glbFiles[2], FALSE)}
    /\ results[3].success /\ results[3].originalSize = 100

(***************************************************************************)
(* The divisor and the bytes saved of the summary (C25).                   *)
(***************************************************************************)
\* C25: in every all-succeeded batch, whatever the sizes of the originals and
\* of the outputs, the total original size the percentage is divided by is
\* greater than 0 and the bytes saved handed to formatBytes are not negative.
C25_PositiveDivisorNonNegativeSavings ==
    \A n \in DOMAIN log :
        (log[n].op = "hud" /\ log[n].hud.kind = "allSucceeded") =>
            /\ log[n].hud.totalOriginal > 0
            /\ log[n].hud.savings >= 0

====
